---- MODULE Spec2Model ----
(***************************************************************************)
(* Attendance backend (src/main.py): the time-sliced HMAC token scheme     *)
(* (generate_token / verify_token), the scan2 handler that appends an     *)
(* attendance record and then updates the member's presence, the token     *)
(* issue of get_member_qrs and the listing of member_attendance.           *)
(*                                                                         *)
(* Text is modelled as a sequence of one-character strings, so that the    *)
(* message f"{member_id}:{action}:{ts}" is really built by concatenation.  *)
(* HMAC-SHA256 is modelled as an ideal keyed function: the digest is       *)
(* determined by, and determines, the pair (key, message).                 *)
(* The handlers' "db is None" guard is not modelled: the database is       *)
(* taken to be configured.  A member's name, created_at and          *)
(* updated_at are not modelled.                                            *)
(***************************************************************************)
EXTENDS Integers, Sequences, FiniteSets, TLC

VARIABLES clock, members, attendance, req, probe, qrs

vars == <<clock, members, attendance, req, probe, qrs>>

(***************************************************************************)
(* Bounds of the model.                                                    *)
(***************************************************************************)
\* last clock value of the presence-engine specification
MaxTime == 20
\* seconds the clock advances per Tick in the presence-engine specification
ClockStep == 10
\* last clock value of the token-authority specification (1 s ticks)
MaxTokTime == 31
\* attendance records the collection may hold
MaxLog == 2

\* request threads serving scan2 concurrently
Procs == {"p1", "p2"}

(***************************************************************************)
(* Text helpers.                                                           *)
(***************************************************************************)
Str_a1 == <<"a", "1">>
Str_b2 == <<"b", "2">>
Str_bad == <<"a", "1", ":", "I", "N">>
Str_IN == <<"I", "N">>
Str_OUT == <<"O", "U", "T">>
Str_X == <<"X">>

\* stand-in for one character outside ASCII
NonAsciiChar == "U+00E9"

IsAscii(s) == \A i \in 1..Len(s) : s[i] # NonAsciiChar

Digit(d) == CASE d = 0 -> "0" [] d = 1 -> "1" [] d = 2 -> "2" [] d = 3 -> "3"
              [] d = 4 -> "4" [] d = 5 -> "5" [] d = 6 -> "6" [] d = 7 -> "7"
              [] d = 8 -> "8" [] d = 9 -> "9"

RECURSIVE NatStr(_)
NatStr(n) == IF n < 10 THEN <<Digit(n)>> ELSE NatStr(n \div 10) \o <<Digit(n % 10)>>

\* Python str(int)
IntStr(n) == IF n < 0 THEN <<"-">> \o NatStr(-n) ELSE NatStr(n)

HexLower(c) == CASE c = "A" -> "a" [] c = "B" -> "b" [] c = "C" -> "c"
                 [] c = "D" -> "d" [] c = "E" -> "e" [] c = "F" -> "f"
                 [] OTHER -> c

HexChars == {"0", "1", "2", "3", "4", "5", "6", "7", "8", "9",
             "a", "b", "c", "d", "e", "f"}

(***************************************************************************)
(* Configuration (src/main.py:113-114).                                    *)
(***************************************************************************)
SECRET == "dev-secret"
OtherSecret == "other-secret"
TOKEN_WINDOW_SECONDS == 10

(***************************************************************************)
(* ObjectId: the scaled-down id is OidHexLen hex characters (24 in bson),  *)
(* upper or lower case; its value is the lower-case text.                  *)
(***************************************************************************)
OidHexLen == 2

ObjectIdValid(id_str) ==
    /\ Len(id_str) = OidHexLen
    /\ \A i \in 1..Len(id_str) : HexLower(id_str[i]) \in HexChars

ObjectId(id_str) == [i \in 1..Len(id_str) |-> HexLower(id_str[i])]

\* oid(id_str) raises HTTPException(400) exactly when this is FALSE
oid_ok(id_str) == ObjectIdValid(id_str)

oid(id_str) == ObjectId(id_str)

\* ObjectIds the database may generate for new members
OidPool == {Str_a1, Str_b2}

\* member ids a client may send
MemberIds == {Str_a1, Str_b2, Str_bad}

Actions == {Str_IN, Str_OUT}

(***************************************************************************)
(* Token authority.                                                        *)
(***************************************************************************)
\* f"{member_id}:{action}:{ts}"
msg_noaction(member_id, action, ts) == member_id \o <<":">> \o IntStr(ts)
msg_nomember(member_id, action, ts) == action \o <<":">> \o IntStr(ts)
msg(member_id, action, ts) ==
    member_id \o <<":">> \o action \o <<":">> \o IntStr(ts)

\* base64.urlsafe_b64encode(hmac.new(key, m, sha256).digest()).decode().rstrip("=")
\* the token text, represented by the (key, message) that determine it
mac_token(key, m) == [mac |-> TRUE, key |-> key, text |-> m]

\* a token text that is no MAC output: the text itself
raw_token(text) == [mac |-> FALSE, key |-> "", text |-> text]

token_is_ascii(token) == token.mac \/ IsAscii(token.text)

\* a slice of two windows
time_slice_double(now) == now \div (2 * TOKEN_WINDOW_SECONDS)

\* int(now.timestamp()) // TOKEN_WINDOW_SECONDS
time_slice(now) == now \div TOKEN_WINDOW_SECONDS

generate_token(member_id, action, now) ==
    mac_token(SECRET, msg(member_id, action, time_slice(now)))

\* generate_token raises HTTPException(400, "Invalid action")
generate_token_invalid(action) == action \notin {Str_IN, Str_OUT}

\* hmac.compare_digest raises TypeError on a str with non-ASCII characters
compare_digest_raises(expected, token) ==
    ~token_is_ascii(expected) \/ ~token_is_ascii(token)

compare_digest(expected, token) == expected = token

verify_slices_current_only(current_slice) == {current_slice}
verify_slices_three(current_slice) ==
    {current_slice, current_slice - 1, current_slice - 2}
\* the current slice and the next one
verify_slices_next(current_slice) == {current_slice, current_slice + 1}

verify_slices(current_slice) == {current_slice, current_slice - 1}

verify_token_raises(member_id, action, token, now) ==
    compare_digest_raises(
        mac_token(SECRET, msg(member_id, action, time_slice(now))), token)

verify_token(member_id, action, token, now) ==
    \E ts \in verify_slices(time_slice(now)) :
        compare_digest(mac_token(SECRET, msg(member_id, action, ts)), token)

(***************************************************************************)
(* Storage: the member and attendance collections.                         *)
(***************************************************************************)
None == -1

NoMember == [registered |-> FALSE, present |-> FALSE, last_in |-> None,
             last_out |-> None]

\* the document create_member inserts (src/main.py:82-89)
new_member_doc(now) == [registered |-> TRUE, present |-> FALSE, last_in |-> None,
                        last_out |-> None]

\* the att document of scan2; id is Mongo's generated _id
att_doc(id, member_id, action, now) ==
    [id |-> id, member_id |-> member_id, action |-> action, timestamp |-> now,
     created_at |-> now, updated_at |-> now]

\* a $set document that also clears the time of the other action
upd_clears_other(doc, action, now) ==
    IF action = Str_IN
    THEN [doc EXCEPT !.present = TRUE, !.last_in = now, !.last_out = None]
    ELSE [doc EXCEPT !.present = FALSE, !.last_out = now, !.last_in = None]

\* the $set document of scan2
upd(doc, action, now) ==
    IF action = Str_IN
    THEN [doc EXCEPT !.present = TRUE, !.last_in = now]
    ELSE [doc EXCEPT !.present = FALSE, !.last_out = now]

\* an update of every registered member
update_one_all(coll, o, action, now) ==
    [x \in DOMAIN coll |->
        IF coll[x].registered THEN upd(coll[x], action, now) ELSE coll[x]]

\* db["member"].update_one({"_id": o}, {"$set": upd}): no match, no change
update_one(coll, o, action, now) ==
    IF o \in DOMAIN coll /\ coll[o].registered
    THEN [coll EXCEPT ![o] = upd(coll[o], action, now)]
    ELSE coll

\* list_members: status from the presence flag
status(m) == IF m.present THEN "Present" ELSE "Absent"

\* values of the limit query parameter of member_attendance (any int; 50 when
\* the request gives none)
Limits == {0, 1, 2, 10, 50}

\* the orders sort("timestamp", -1) may give the documents ids of coll: latest
\* first, documents of equal timestamp in any order
sort_desc(coll, ids) ==
    {order \in [1..Cardinality(ids) -> ids] :
        /\ \A i, j \in DOMAIN order : i # j => order[i] # order[j]
        /\ \A i, j \in DOMAIN order :
            i < j => coll[order[i]].timestamp >= coll[order[j]].timestamp}

\* cursor.limit(limit): a limit of 0 is no limit
limit_len(limit, n) == IF limit = 0 \/ limit > n THEN n ELSE limit

\* member_attendance: the responses
\* find({"member_id": member_id}).sort("timestamp", -1).limit(limit) may give
member_attendance_of(coll, member_id, limit) ==
    LET ids == {i \in DOMAIN coll : coll[i].member_id = member_id} IN
    {[k \in 1..limit_len(limit, Cardinality(ids)) |-> coll[order[k]]] :
        order \in sort_desc(coll, ids)}

(***************************************************************************)
(* Responses.                                                              *)
(***************************************************************************)
NoResult == [status |-> 0, detail |-> ""]
Ok == [status |-> 200, detail |-> "ok"]
InvalidAction == [status |-> 400, detail |-> "Invalid action"]
InvalidToken == [status |-> 401, detail |-> "Invalid or expired token"]
InvalidMemberId == [status |-> 400, detail |-> "Invalid member id"]
Issued == [status |-> 200, detail |-> "in, out, window_seconds"]
MemberNotFound == [status |-> 404, detail |-> "Member not found"]
TypeErrorRaised == [status |-> 500, detail |-> "TypeError"]
StorageError == [status |-> 500, detail |-> "storage error"]

(***************************************************************************)
(* Requests in flight: the locals of one scan2 call.  A call that raised   *)
(* before line 194 has left only its response.                             *)
(***************************************************************************)
IdleReq == [pc |-> "idle", member_id |-> <<>>, action |-> <<>>,
            token |-> raw_token(<<>>), now |-> None, att_id |-> 0,
            result |-> NoResult]

ScanActions == {Str_IN, Str_OUT, Str_X}

\* issue times of the tokens a client may still hold at time t: this window,
\* the previous one, and the one before
IssueTimes(t) ==
    {u \in {t, t - TOKEN_WINDOW_SECONDS, t - 2 * TOKEN_WINDOW_SECONDS} : u >= 0}

\* tokens a client may present with (member_id, action) at time t: the member's
\* own tokens of the last three windows for either action, every member's
\* current tokens, a token made with another secret, the empty text and a text
\* with a non-ASCII character
RequestTokens(member_id, t) ==
    {generate_token(member_id, a, u) : a \in Actions, u \in IssueTimes(t)}
    \cup {generate_token(m, a, t) : m \in MemberIds, a \in Actions}
    \cup {mac_token(OtherSecret, msg(member_id, a, time_slice(t))) : a \in Actions}
    \cup {raw_token(<<>>), raw_token(<<NonAsciiChar>>)}

\* tokens of (member_id, action) issued in this window or the previous one
FreshTokens(member_id, action, t) ==
    {generate_token(member_id, action, u) :
        u \in {v \in {t, t - TOKEN_WINDOW_SECONDS} : v >= 0}}

InFlight == {p \in Procs : req[p].pc \in {"record", "insert"}}

(***************************************************************************)
(* Presence engine: actions.                                               *)
(***************************************************************************)
Tick ==
    /\ clock + ClockStep <= MaxTime
    /\ clock' = clock + ClockStep
    /\ UNCHANGED <<members, attendance, req, probe, qrs>>

\* ids that requests seen so far have named
SeenIds ==
    {attendance[i].member_id : i \in DOMAIN attendance}
    \cup {req[p].member_id : p \in Procs}
    \cup {qrs.member_id}

\* POST /api/members: insert_one generates an ObjectId not seen before
create_member ==
    /\ \E o \in OidPool :
        /\ ~members[o].registered
        /\ \A id \in SeenIds : oid_ok(id) => oid(id) # o
        /\ members' = [members EXCEPT ![o] = new_member_doc(clock)]
    /\ UNCHANGED <<clock, attendance, req, probe, qrs>>

\* a scan2 that refuses a token another request has presented
scan2_check_single_use(member_id, action, token, now) ==
    IF action \notin {Str_IN, Str_OUT} THEN InvalidAction
    ELSE IF verify_token_raises(member_id, action, token, now) THEN TypeErrorRaised
    ELSE IF ~verify_token(member_id, action, token, now) THEN InvalidToken
    ELSE IF \E q \in Procs : req[q].pc # "idle" /\ req[q].token = token THEN InvalidToken
    ELSE NoResult

\* a scan2 that verifies the token before it looks at the action
scan2_check_verify_first(member_id, action, token, now) ==
    IF verify_token_raises(member_id, action, token, now) THEN TypeErrorRaised
    ELSE IF ~verify_token(member_id, action, token, now) THEN InvalidToken
    ELSE IF action \notin {Str_IN, Str_OUT} THEN InvalidAction
    ELSE NoResult

\* scan2, lines 185-192: action check and verify_token; NoResult: not raised
scan2_check(member_id, action, token, now) ==
    IF action \notin {Str_IN, Str_OUT} THEN InvalidAction
    ELSE IF verify_token_raises(member_id, action, token, now) THEN TypeErrorRaised
    ELSE IF ~verify_token(member_id, action, token, now) THEN InvalidToken
    ELSE NoResult

scan2_request(p, member_id, action, token) ==
    /\ req[p].pc = "idle"
    /\ LET r == scan2_check(member_id, action, token, clock) IN
        /\ r = NoResult => Len(attendance) + Cardinality(InFlight) < MaxLog
        /\ req' = [req EXCEPT ![p] =
                     IF r = NoResult
                     THEN [IdleReq EXCEPT !.pc = "record", !.member_id = member_id,
                                          !.action = action, !.token = token]
                     ELSE [IdleReq EXCEPT !.pc = "done", !.result = r]]
    /\ UNCHANGED <<clock, members, attendance, probe, qrs>>

\* a request with any member id, action and token
scan2_begin(p) ==
    \E member_id \in MemberIds, action \in ScanActions :
        \E token \in RequestTokens(member_id, clock) :
            scan2_request(p, member_id, action, token)

\* a request presenting a token issued for it in this or the previous window
scan2_begin_fresh(p) ==
    \E member_id \in OidPool, action \in Actions :
        \E token \in FreshTokens(member_id, action, clock) :
            scan2_request(p, member_id, action, token)

\* tokens that do not verify for (member_id, action) at time t: issued two
\* windows ago, issued for the other action, issued for another member
StaleTokens(member_id, action, t) ==
    {generate_token(member_id, action, u) :
        u \in {v \in {t - 2 * TOKEN_WINDOW_SECONDS} : v >= 0}}
    \cup {generate_token(member_id, a, t) : a \in Actions \ {action}}
    \cup {generate_token(m, action, t) : m \in OidPool \ {member_id}}

\* a request that scan2 rejects: its token does not verify
scan2_begin_rejected(p) ==
    \E member_id \in OidPool, action \in Actions :
        \E token \in StaleTokens(member_id, action, clock) :
            scan2_request(p, member_id, action, token)

\* scan2, lines 195-202: now and the att document
scan2_now(p) ==
    /\ req[p].pc = "record"
    /\ req' = [req EXCEPT ![p].now = clock, ![p].pc = "insert"]
    /\ UNCHANGED <<clock, members, attendance, probe, qrs>>

\* an insert that replaces the collection by the new document
scan2_insert_replaces(p) ==
    /\ req[p].pc = "insert"
    /\ attendance' = <<att_doc(1, req[p].member_id, req[p].action, req[p].now)>>
    /\ req' = [req EXCEPT ![p].att_id = 1, ![p].pc = "update"]
    /\ UNCHANGED <<clock, members, probe, qrs>>

\* scan2, line 203: insert_one succeeds
scan2_insert(p) ==
    /\ req[p].pc = "insert"
    /\ attendance' = Append(attendance,
          att_doc(Len(attendance) + 1, req[p].member_id, req[p].action, req[p].now))
    /\ req' = [req EXCEPT ![p].att_id = Len(attendance) + 1, ![p].pc = "update"]
    /\ UNCHANGED <<clock, members, probe, qrs>>

\* scan2, line 203: insert_one raises
scan2_insert_fails(p) ==
    /\ req[p].pc = "insert"
    /\ req' = [req EXCEPT ![p].result = StorageError, ![p].pc = "done"]
    /\ UNCHANGED <<clock, members, attendance, probe, qrs>>

\* scan2, lines 206-213: oid, update_one, the response
scan2_update(p) ==
    /\ req[p].pc = "update"
    /\ IF ~oid_ok(req[p].member_id)
       THEN /\ req' = [req EXCEPT ![p].result = InvalidMemberId, ![p].pc = "done"]
            /\ UNCHANGED members
       ELSE /\ members' = update_one(members, oid(req[p].member_id),
                                     req[p].action, req[p].now)
            /\ req' = [req EXCEPT ![p].result = Ok, ![p].pc = "done"]
    /\ UNCHANGED <<clock, attendance, probe, qrs>>

\* scan2, line 211: update_one raises
scan2_update_fails(p) ==
    /\ req[p].pc = "update"
    /\ oid_ok(req[p].member_id)
    /\ req' = [req EXCEPT ![p].result = StorageError, ![p].pc = "done"]
    /\ UNCHANGED <<clock, members, attendance, probe, qrs>>

\* the response is delivered and the thread takes the next request
scan2_return(p) ==
    /\ req[p].pc = "done"
    /\ req' = [req EXCEPT ![p] = IdleReq]
    /\ UNCHANGED <<clock, members, attendance, probe, qrs>>

\* the last call of the token authority: the token generated, and the
\* arguments and outcome of the verify_token call being answered
NoProbe == [phase |-> "none", member_id |-> <<>>, action |-> <<>>, issued |-> None,
            token |-> raw_token(<<>>), vmember |-> <<>>, vaction |-> <<>>,
            vtoken |-> raw_token(<<>>), vnow |-> None, result |-> FALSE,
            raised |-> FALSE]

\* the call of get_member_qrs: its locals, and the response the client holds
NoQrs == [pc |-> "idle", member_id |-> <<>>, in_token |-> raw_token(<<>>),
          t_in |-> None, out_token |-> raw_token(<<>>), t_out |-> None,
          result |-> NoResult]

Init ==
    /\ clock = 0
    /\ members = [o \in OidPool |-> NoMember]
    /\ attendance = <<>>
    /\ req = [p \in Procs |-> IdleReq]
    /\ probe = NoProbe
    /\ qrs = NoQrs

\* one request thread, every input, storage failures
Next ==
    \/ Tick
    \/ create_member
    \/ scan2_begin("p1")
    \/ scan2_now("p1")
    \/ scan2_insert("p1")
    \/ scan2_insert_fails("p1")
    \/ scan2_update("p1")
    \/ scan2_update_fails("p1")
    \/ scan2_return("p1")

Spec == Init /\ [][Next]_vars

\* two request threads, each step of scan2 interleaved with the other's;
\* clients name well-formed ids and the storage does not fail
ConcNext ==
    \/ Tick
    \/ create_member
    \/ \E p \in Procs : scan2_begin_fresh(p)
    \/ \E p \in Procs : scan2_begin_rejected(p)
    \/ \E p \in Procs : scan2_now(p)
    \/ \E p \in Procs : scan2_insert(p)
    \/ \E p \in Procs : scan2_update(p)
    \/ \E p \in Procs : scan2_return(p)

SpecConc == Init /\ [][ConcNext]_vars

(***************************************************************************)
(* Token issue: a client asks for the tokens of a member and presents them *)
(* to scan2; the storage does not fail.                                    *)
(***************************************************************************)
\* get_member_qrs, lines 143-152: oid, find_one, and the IN token
get_member_qrs(member_id) ==
    /\ qrs.pc = "idle"
    /\ qrs' = IF ~oid_ok(member_id)
              THEN [NoQrs EXCEPT !.pc = "done", !.member_id = member_id,
                                 !.result = InvalidMemberId]
              ELSE IF ~members[oid(member_id)].registered
              THEN [NoQrs EXCEPT !.pc = "done", !.member_id = member_id,
                                 !.result = MemberNotFound]
              ELSE [NoQrs EXCEPT !.pc = "out", !.member_id = member_id,
                                 !.in_token = generate_token(member_id, Str_IN, clock),
                                 !.t_in = clock]
    /\ UNCHANGED <<clock, members, attendance, req, probe>>

\* an OUT entry that carries a token generated for IN
get_member_qrs_out_for_in ==
    /\ qrs.pc = "out"
    /\ qrs' = [qrs EXCEPT !.pc = "done", !.t_out = clock, !.result = Issued,
                          !.out_token = generate_token(qrs.member_id, Str_IN, clock)]
    /\ UNCHANGED <<clock, members, attendance, req, probe>>

\* get_member_qrs, lines 153-159: the OUT token and the response
get_member_qrs_out ==
    /\ qrs.pc = "out"
    /\ qrs' = [qrs EXCEPT !.pc = "done", !.t_out = clock, !.result = Issued,
                          !.out_token = generate_token(qrs.member_id, Str_OUT, clock)]
    /\ UNCHANGED <<clock, members, attendance, req, probe>>

\* the client drops the response and may ask again
get_member_qrs_return ==
    /\ qrs.pc = "done"
    /\ qrs' = NoQrs
    /\ UNCHANGED <<clock, members, attendance, req, probe>>

\* the client presents a token of the response it holds
scan2_begin_issued(p) ==
    /\ qrs.pc = "done"
    /\ qrs.result = Issued
    /\ \E action \in Actions :
        scan2_request(p, qrs.member_id, action,
                      IF action = Str_IN THEN qrs.in_token ELSE qrs.out_token)

IssueNext ==
    \/ Tick
    \/ create_member
    \/ \E member_id \in MemberIds : get_member_qrs(member_id)
    \/ get_member_qrs_out
    \/ get_member_qrs_return
    \/ scan2_begin_issued("p1")
    \/ scan2_now("p1")
    \/ scan2_insert("p1")
    \/ scan2_update("p1")
    \/ scan2_return("p1")

SpecIssue == Init /\ [][IssueNext]_vars

(***************************************************************************)
(* Token authority on its own: one token is generated, time passes in      *)
(* seconds, and verify_token is called on it.                              *)
(***************************************************************************)
TokTick ==
    /\ probe.phase \in {"none", "issued", "refused"}
    /\ clock < MaxTokTime
    /\ clock' = clock + 1
    /\ UNCHANGED <<members, attendance, req, probe, qrs>>

\* generate_token(member_id, action) at the current time, or with an explicit
\* now one window ahead
TokGenerate ==
    /\ probe.phase \in {"none", "refused"}
    /\ \E member_id \in MemberIds, action \in ScanActions :
        \E now \in {clock, clock + TOKEN_WINDOW_SECONDS} :
            probe' = IF generate_token_invalid(action)
                     THEN [NoProbe EXCEPT !.phase = "refused", !.action = action]
                     ELSE [NoProbe EXCEPT !.phase = "issued", !.member_id = member_id,
                                          !.action = action, !.issued = now,
                                          !.token = generate_token(member_id, action, now)]
    /\ UNCHANGED <<clock, members, attendance, req, qrs>>

TokVerify ==
    /\ probe.phase = "issued"
    /\ \E member_id \in MemberIds, action \in Actions :
        probe' = [probe EXCEPT !.phase = "verified", !.vmember = member_id,
                               !.vaction = action, !.vtoken = probe.token,
                               !.vnow = clock,
                               !.result = verify_token(member_id, action, probe.token, clock)]
    /\ UNCHANGED <<clock, members, attendance, req, qrs>>

\* token texts that generate_token did not produce for (member_id, action) in
\* the window of t or the one before: made with another secret, empty, one
\* ASCII character, one non-ASCII character
ForeignTokens(member_id, action, t) ==
    {mac_token(OtherSecret, msg(member_id, action, time_slice(t))),
     raw_token(<<>>), raw_token(<<"A">>), raw_token(<<NonAsciiChar>>)}

\* verify_token called on a token text of the caller's choosing; it returns
\* a boolean or raises
TokVerifyForeign ==
    /\ probe.phase = "issued"
    /\ \E member_id \in MemberIds, action \in Actions :
        \E token \in ForeignTokens(member_id, action, clock) :
            LET raises == verify_token_raises(member_id, action, token, clock) IN
            probe' = [probe EXCEPT
                        !.phase = "checked", !.vmember = member_id,
                        !.vaction = action, !.vtoken = token, !.vnow = clock,
                        !.raised = raises,
                        !.result = IF raises THEN FALSE
                                   ELSE verify_token(member_id, action, token, clock)]
    /\ UNCHANGED <<clock, members, attendance, req, qrs>>

TokReturn ==
    /\ probe.phase \in {"verified", "checked"}
    /\ probe' = [probe EXCEPT !.phase = "issued", !.vmember = <<>>, !.vaction = <<>>,
                              !.vtoken = raw_token(<<>>), !.vnow = None,
                              !.result = FALSE, !.raised = FALSE]
    /\ UNCHANGED <<clock, members, attendance, req, qrs>>

TokNext == TokTick \/ TokGenerate \/ TokVerify \/ TokVerifyForeign \/ TokReturn

SpecToken == Init /\ [][TokNext]_vars

(***************************************************************************)
(* Claims about the token authority (SpecToken).                           *)
(***************************************************************************)
ProbeSamePair ==
    /\ probe.phase = "verified"
    /\ probe.vmember = probe.member_id
    /\ probe.vaction = probe.action

\* C1: a token generated for (m, a) at time t is accepted by verify_token for
\* (m, a) at every time t' with t <= t' < t + TOKEN_WINDOW_SECONDS.
C1_AcceptedWithinWindow ==
    (/\ ProbeSamePair
     /\ probe.issued <= probe.vnow
     /\ probe.vnow < probe.issued + TOKEN_WINDOW_SECONDS)
    => probe.result = TRUE

\* the token is verified less than a window after issue, in the next slice
C1_Witness ==
    /\ ProbeSamePair
    /\ probe.issued < probe.vnow
    /\ probe.vnow < probe.issued + TOKEN_WINDOW_SECONDS
    /\ time_slice(probe.vnow) = time_slice(probe.issued) + 1
    /\ probe.result = TRUE

\* C2: a token generated for (m, a) at time t is rejected by verify_token for
\* (m, a) at every time t'' >= t + 2 * TOKEN_WINDOW_SECONDS.
C2_RejectedAfterTwoWindows ==
    (/\ ProbeSamePair
     /\ probe.vnow >= probe.issued + 2 * TOKEN_WINDOW_SECONDS)
    => probe.result = FALSE

\* the token is verified exactly two windows after issue and rejected
C2_Witness ==
    /\ ProbeSamePair
    /\ probe.vnow = probe.issued + 2 * TOKEN_WINDOW_SECONDS
    /\ probe.result = FALSE

\* C8: the token generated for (m, IN) at t is not accepted for (m, OUT) at t,
\* nor the token generated for (m, OUT) for (m, IN).
C8_ActionBinding ==
    (/\ probe.phase = "verified"
     /\ probe.vmember = probe.member_id
     /\ probe.vaction # probe.action
     /\ probe.vnow = probe.issued)
    => probe.result = FALSE

\* an IN token was verified for OUT at its issue time and rejected
C8_Witness ==
    /\ probe.phase = "verified"
    /\ probe.vmember = probe.member_id
    /\ probe.action = Str_IN
    /\ probe.vaction = Str_OUT
    /\ probe.vnow = probe.issued
    /\ probe.result = FALSE

\* C9: the token generated for (A, a) at t is not accepted for (B, a) at t
\* when A and B are distinct member ids.
C9_IdentityBinding ==
    (/\ probe.phase = "verified"
     /\ probe.vmember # probe.member_id
     /\ probe.vaction = probe.action
     /\ probe.vnow = probe.issued)
    => probe.result = FALSE

\* a token of one member id was verified for another, whose text extends it,
\* at its issue time and rejected
C9_Witness ==
    /\ probe.phase = "verified"
    /\ probe.member_id = Str_a1
    /\ probe.vmember = Str_bad
    /\ probe.vaction = probe.action
    /\ probe.vnow = probe.issued
    /\ probe.result = FALSE

(***************************************************************************)
(* Claims about the presence engine (Spec, SpecConc).                      *)
(***************************************************************************)
Registered(member_id) == oid_ok(member_id) /\ members[oid(member_id)].registered

\* positions in the attendance collection of the events naming member o
MemberEvents(o) ==
    {i \in DOMAIN attendance :
        oid_ok(attendance[i].member_id) /\ oid(attendance[i].member_id) = o}

\* no scan naming member o is between verification and its response
Settled(o) ==
    \A p \in Procs :
        req[p].pc \in {"record", "insert", "update"}
            => ~(oid_ok(req[p].member_id) /\ oid(req[p].member_id) = o)

\* the event of member o accepted last (inserted last)
LastEvent(o) ==
    attendance[CHOOSE i \in MemberEvents(o) : \A j \in MemberEvents(o) : j <= i]

\* C3: for every registered member, the presence flag is true if and only if
\* the most recently accepted event of the member is an IN event; stated here
\* for the states in which no scan of the member is in progress.
C3_PresenceIffLastEventIn ==
    \A o \in OidPool :
        (members[o].registered /\ Settled(o))
            => (members[o].present
                  <=> (MemberEvents(o) # {} /\ LastEvent(o).action = Str_IN))

\* C4: a scan naming an unregistered member id is answered "Member not found"
\* and leaves no attendance record; stated here for the scans whose token
\* verifies (those that get past line 192).
C4_UnregisteredNotFound ==
    /\ \A i \in DOMAIN attendance : Registered(attendance[i].member_id)
    /\ \A p \in Procs :
        (req[p].pc = "done" /\ req[p].member_id # <<>>
            /\ ~Registered(req[p].member_id))
            => (req[p].result = MemberNotFound /\ req[p].att_id = 0)

\* C5: once a scan has its response, either its event is in the log, the
\* response is ok and the member record shows the event, or the event is not
\* in the log and the response is an error; stated here for registered members.
C5_AllOrNothing ==
    \A p \in Procs :
        req[p].pc = "done" =>
            /\ (req[p].att_id # 0 /\ Registered(req[p].member_id)) =>
                 /\ req[p].result = Ok
                 /\ LET m == members[oid(req[p].member_id)] IN
                      IF req[p].action = Str_IN
                      THEN m.present /\ m.last_in = req[p].now
                      ELSE ~m.present /\ m.last_out = req[p].now
            /\ req[p].att_id = 0 => req[p].result # Ok

\* C6: when the concurrent scans of a member have all responded, the presence
\* flag is that of the member's event with the latest timestamp.
C6_LatestTimestampWins ==
    \A o \in OidPool :
        (members[o].registered /\ Settled(o)) =>
            \A i \in MemberEvents(o) :
                (\A j \in MemberEvents(o) \ {i} :
                    attendance[j].timestamp < attendance[i].timestamp)
                    => (members[o].present <=> attendance[i].action = Str_IN)

\* token is neither candidate verify_token computes for (member_id, action) at t
FailsVerification(member_id, action, token, t) ==
    \A ts \in {time_slice(t), time_slice(t) - 1} :
        token # mac_token(SECRET, msg(member_id, action, ts))

\* C7: a scan whose token fails verification is answered "Invalid or expired
\* token" and changes neither the attendance log nor any member record.
C7_BadTokenRejected ==
    [][\A member_id \in MemberIds, action \in Actions :
         \A token \in RequestTokens(member_id, clock) :
            (/\ FailsVerification(member_id, action, token, clock)
             /\ scan2_request("p1", member_id, action, token))
                => /\ req'["p1"].pc = "done"
                   /\ req'["p1"].result = InvalidToken
                   /\ UNCHANGED <<attendance, members>>]_vars

\* C10: a scan presenting a token still within its validity is accepted
\* whether or not the same token is being or has been used by another scan,
\* and every accepted scan that inserted has its own attendance record.
OwnRecord(p) ==
    req[p].att_id # 0 =>
        /\ req[p].att_id \in DOMAIN attendance
        /\ attendance[req[p].att_id].member_id = req[p].member_id
        /\ attendance[req[p].att_id].action = req[p].action
        /\ \A q \in Procs \ {p} : req[q].att_id # req[p].att_id

C10_ReplayAccepted ==
    [][/\ \A p \in Procs, member_id \in OidPool, action \in Actions :
            \A token \in FreshTokens(member_id, action, clock) :
                scan2_request(p, member_id, action, token)
                    => (req'[p].pc = "record" /\ req'[p].token = token)
       /\ \A p \in Procs : OwnRecord(p)']_vars

\* both threads were given the same token for the same registered member and
\* action, both answered ok, and the log holds their two records
C10_Witness ==
    /\ req["p1"].pc = "done" /\ req["p2"].pc = "done"
    /\ req["p1"].result = Ok /\ req["p2"].result = Ok
    /\ req["p1"].token = req["p2"].token
    /\ req["p1"].member_id = req["p2"].member_id
    /\ req["p1"].action = req["p2"].action
    /\ Registered(req["p1"].member_id)
    /\ Len(attendance) = 2
    /\ MemberEvents(oid(req["p1"].member_id)) = {1, 2}

(***************************************************************************)
(* Further claims about the token authority (SpecToken).                   *)
(***************************************************************************)
\* C11: verify_token returns false, and does not raise, for every token text
\* that is neither of its two candidates: malformed texts and tokens made
\* with another secret.
C11_VerifyTotal ==
    probe.phase = "checked" => (~probe.raised /\ probe.result = FALSE)

\* C13: verify_token accepts a token generated for (m, a) in window j exactly
\* when the window of the verification time is j or j + 1.
C13_AcceptedIffCurrentOrPrevious ==
    ProbeSamePair =>
        (probe.result <=>
            time_slice(probe.vnow) - time_slice(probe.issued) \in {0, 1})

\* a token was rejected in the window before the one it was generated for,
\* the verification being less than a window before the issue time
C13_Witness ==
    /\ ProbeSamePair
    /\ time_slice(probe.vnow) = time_slice(probe.issued) - 1
    /\ probe.issued - probe.vnow < TOKEN_WINDOW_SECONDS
    /\ probe.result = FALSE

\* C14 as stated: the time from issue to the first rejection is at least W
\* and less than 2W seconds.  A token accepted in second t' is accepted until
\* t' + 1, so the time to the first rejection is at least t' + 1 - t.
C14_ValidityBelowTwoWindows ==
    (ProbeSamePair /\ probe.issued <= probe.vnow) =>
        /\ probe.vnow - probe.issued < TOKEN_WINDOW_SECONDS => probe.result = TRUE
        /\ probe.result = TRUE
              => probe.vnow + 1 - probe.issued < 2 * TOKEN_WINDOW_SECONDS

\* C14 amended: the time from issue to the first rejection is at least W and
\* at most 2W seconds.
C14_ValidityAtMostTwoWindows ==
    (ProbeSamePair /\ probe.issued <= probe.vnow) =>
        /\ probe.vnow - probe.issued < TOKEN_WINDOW_SECONDS => probe.result = TRUE
        /\ probe.result = TRUE
              => probe.vnow + 1 - probe.issued <= 2 * TOKEN_WINDOW_SECONDS

\* a token issued in the first second of a window is still accepted in the
\* last second before issue + 2W
C14_Witness ==
    /\ ProbeSamePair
    /\ probe.issued % TOKEN_WINDOW_SECONDS = 0
    /\ probe.vnow = probe.issued + 2 * TOKEN_WINDOW_SECONDS - 1
    /\ probe.result = TRUE

(***************************************************************************)
(* Claims about the event listing.                                         *)
(***************************************************************************)
member_attendance(member_id, limit) ==
    member_attendance_of(attendance, member_id, limit)

\* C12: member_attendance(member_id, limit) returns only events of that member,
\* latest timestamp first, and at most limit of them, for every limit.
C12_ListBoundedByLimit ==
    \A member_id \in MemberIds, limit \in Limits :
        \A records \in member_attendance(member_id, limit) :
            /\ \A k \in DOMAIN records : records[k].member_id = member_id
            /\ \A j, k \in DOMAIN records :
                j < k => records[j].timestamp >= records[k].timestamp
            /\ Len(records) <= limit

(***************************************************************************)
(* Claims about the effect of a scan (SpecConc, Spec).                     *)
(***************************************************************************)
\* the step of thread p that is the insert_one of scan2
StepInsert(p) == req[p].pc = "insert" /\ req'[p].pc = "update"

\* the step of thread p that is the update_one of scan2 and its response
StepUpdate(p) == req[p].pc = "update" /\ req'[p].pc = "done"

\* C15: for a registered member, a scan with a verified token is accepted
\* whatever the presence flag, appends exactly one event {member_id, action,
\* now}, answers ok, and sets present and last_in = now for IN, or clears
\* present and sets last_out = now for OUT, leaving the other time unchanged.
C15_ScanEffect ==
    [][\A p \in Procs :
        /\ (req[p].pc = "idle" /\ req'[p].pc = "done") =>
            \A member_id \in OidPool, action \in Actions :
                \A token \in FreshTokens(member_id, action, clock) :
                    ~scan2_request(p, member_id, action, token)
        /\ StepInsert(p) =>
            /\ Len(attendance') = Len(attendance) + 1
            /\ SubSeq(attendance', 1, Len(attendance)) = attendance
            /\ LET e == attendance'[Len(attendance')] IN
                /\ e.member_id = req[p].member_id
                /\ e.action = req[p].action
                /\ e.timestamp = req[p].now
        /\ (StepUpdate(p) /\ Registered(req[p].member_id)) =>
            /\ req'[p].result = Ok
            /\ attendance' = attendance
            /\ LET o == oid(req[p].member_id) IN
                IF req[p].action = Str_IN
                THEN /\ members'[o].present
                     /\ members'[o].last_in = req[p].now
                     /\ members'[o].last_out = members[o].last_out
                ELSE /\ ~members'[o].present
                     /\ members'[o].last_out = req[p].now
                     /\ members'[o].last_in = members[o].last_in]_vars

\* a member who was present and had gone out before was scanned IN again: the
\* scan answered ok, last_in is its time and last_out is still the earlier one
C15_Witness ==
    \E p \in Procs :
        /\ req[p].pc = "done" /\ req[p].result = Ok /\ req[p].action = Str_IN
        /\ Registered(req[p].member_id)
        /\ \A q \in Procs \ {p} : req[q].pc = "idle"
        /\ LET m == members[oid(req[p].member_id)] IN
            /\ m.present /\ m.last_in = req[p].now
            /\ m.last_out # None /\ m.last_out < m.last_in
        /\ Len(attendance) = 2
        /\ attendance[1].member_id = req[p].member_id
        /\ attendance[1].action = Str_OUT
        /\ attendance[2].action = Str_IN

\* C16: the record of a member and the member's events change only by a step
\* of an accepted scan naming that member; a member is registered Absent with
\* last_in and last_out unset.
C16_ChangedOnlyByOwnScan ==
    [][\A o \in OidPool :
        (members'[o] # members[o] \/ MemberEvents(o)' # MemberEvents(o)) =>
            \/ /\ ~members[o].registered
               /\ members'[o].registered
               /\ ~members'[o].present
               /\ members'[o].last_in = None /\ members'[o].last_out = None
               /\ attendance' = attendance
            \/ \E p \in Procs :
                /\ oid_ok(req[p].member_id) /\ oid(req[p].member_id) = o
                /\ StepInsert(p) \/ StepUpdate(p)]_vars

\* a scan of a1 answered ok and marked a1 present while b2, registered, is as
\* it was registered, and the other thread's scan was rejected
C16_Witness ==
    /\ req["p1"].pc = "done" /\ req["p1"].result = Ok
    /\ req["p1"].member_id = Str_a1
    /\ req["p2"].pc = "done" /\ req["p2"].result = InvalidToken
    /\ members[oid(Str_a1)].present
    /\ members[oid(Str_b2)] = new_member_doc(0)
    /\ MemberEvents(oid(Str_b2)) = {}

\* C17: the attendance log is append-only: a stored event keeps its member
\* id, action and timestamp, and the number of events of a member never
\* decreases.
C17_AppendOnly ==
    [][/\ \A i \in DOMAIN attendance :
            /\ i \in DOMAIN attendance'
            /\ attendance'[i].member_id = attendance[i].member_id
            /\ attendance'[i].action = attendance[i].action
            /\ attendance'[i].timestamp = attendance[i].timestamp
       /\ \A member_id \in MemberIds :
            Cardinality({i \in DOMAIN attendance' :
                            attendance'[i].member_id = member_id})
                >= Cardinality({i \in DOMAIN attendance :
                                   attendance[i].member_id = member_id})]_vars

\* a second event was appended after an earlier one, which is still there
C17_Witness ==
    /\ Len(attendance) = 2
    /\ attendance[1].timestamp < attendance[2].timestamp
    /\ attendance[1].action = Str_IN /\ attendance[2].action = Str_OUT
    /\ req["p1"].att_id = 2

\* timestamps of the events of member o with the given action
EventTimes(o, action) ==
    {attendance[i].timestamp : i \in {j \in MemberEvents(o) :
                                        attendance[j].action = action}}

\* the largest element of a non-empty set of times
MaxOf(S) == CHOOSE x \in S : \A y \in S : y <= x

\* C19: for every registered member, last_in is set if and only if the log
\* holds an IN event of the member, and then it is the largest timestamp of
\* the member's IN events; likewise last_out and OUT events.  Stated here for
\* the states in which no scan of the member is in progress.
C19_LastTimesMatchLog ==
    \A o \in OidPool :
        (members[o].registered /\ Settled(o)) =>
            /\ members[o].last_in # None <=> EventTimes(o, Str_IN) # {}
            /\ EventTimes(o, Str_IN) # {}
                  => members[o].last_in = MaxOf(EventTimes(o, Str_IN))
            /\ members[o].last_out # None <=> EventTimes(o, Str_OUT) # {}
            /\ EventTimes(o, Str_OUT) # {}
                  => members[o].last_out = MaxOf(EventTimes(o, Str_OUT))

(***************************************************************************)
(* Claims about invalid actions (Spec) and token issue (SpecIssue).        *)
(***************************************************************************)
\* the step of thread p that answers "Invalid action" and writes nothing
RejectsAction(p) ==
    /\ req'[p].pc = "done"
    /\ req'[p].result = InvalidAction
    /\ req'[p].att_id = 0
    /\ attendance' = attendance
    /\ members' = members

\* C18: an action other than IN and OUT is refused with "Invalid action" by
\* generate_token and by scan2; scan2 refuses it before it verifies the token,
\* whatever the token, and appends no event and changes no member.
C18_InvalidActionRejectedFirst ==
    [][/\ \A action \in ScanActions :
            generate_token_invalid(action) <=> action \notin Actions
       /\ (req["p1"].pc = "idle" /\ req'["p1"].pc # "idle" /\ ~RejectsAction("p1")) =>
            \A member_id \in MemberIds :
                \A token \in RequestTokens(member_id, clock) :
                    ~scan2_request("p1", member_id, Str_X, token)]_vars

\* a scan was answered "Invalid action" when a member was registered and
\* present; the log still holds the one earlier event
C18_Witness ==
    /\ req["p1"].pc = "done"
    /\ req["p1"].result = InvalidAction
    /\ req["p1"].att_id = 0
    /\ Len(attendance) = 1
    /\ Registered(attendance[1].member_id)
    /\ members[oid(attendance[1].member_id)].present

\* the step that starts a get_member_qrs call
StepQrs == qrs.pc = "idle" /\ qrs'.pc # "idle"

\* the qrs response carries no token
NoTokens(r) ==
    r.in_token = raw_token(<<>>) /\ r.out_token = raw_token(<<>>)

\* the tokens of the response the client holds were issued in the window of
\* the current time, by a call that crossed at most one window boundary
\* between its two readings of the time
IssuedThisWindow ==
    /\ qrs.pc = "done"
    /\ qrs.result = Issued
    /\ time_slice(qrs.t_out) - time_slice(qrs.t_in) <= 1
    /\ time_slice(clock) \in {time_slice(qrs.t_in), time_slice(qrs.t_out)}

\* what C20 says of registered members and of the stored state: the call
\* for a registered member returns tokens, a scan presenting one of them in
\* the window of issue is accepted and answers ok, and the call writes nothing
IssuedTokensWork ==
    /\ (StepQrs /\ Registered(qrs'.member_id)) => qrs'.pc = "out"
    /\ qrs' # qrs => (members' = members /\ attendance' = attendance)
    /\ (req["p1"].pc = "idle" /\ req'["p1"].pc = "done") => ~IssuedThisWindow
    /\ StepUpdate("p1") => req'["p1"].result = Ok

\* C20 as stated: get_member_qrs for a registered member returns an IN and an
\* OUT token that scan2 accepts at any time in the window of issue; for an
\* unregistered member id it fails with "Member not found" and returns no
\* token; it changes no stored state.
C20_IssueNotFoundForEveryUnregistered ==
    [][/\ IssuedTokensWork
       /\ (StepQrs /\ ~Registered(qrs'.member_id)) =>
            /\ qrs'.pc = "done"
            /\ qrs'.result = MemberNotFound
            /\ NoTokens(qrs')]_vars

\* C20 amended: as stated, except that for a member id that is not a valid
\* ObjectId the call fails with "Invalid member id" (400), and with "Member
\* not found" for a valid id that is not registered.
C20_IssueNotFoundOrInvalidId ==
    [][/\ IssuedTokensWork
       /\ (StepQrs /\ ~Registered(qrs'.member_id)) =>
            /\ qrs'.pc = "done"
            /\ qrs'.result = IF oid_ok(qrs'.member_id) THEN MemberNotFound
                             ELSE InvalidMemberId
            /\ NoTokens(qrs')]_vars

\* the client holds the tokens issued for a registered member, presented the
\* OUT token in the window of issue, and the scan answered ok
C20_Witness ==
    /\ IssuedThisWindow
    /\ Registered(qrs.member_id)
    /\ req["p1"].pc = "done"
    /\ req["p1"].result = Ok
    /\ req["p1"].member_id = qrs.member_id
    /\ req["p1"].action = Str_OUT
    /\ req["p1"].token = qrs.out_token
    /\ time_slice(req["p1"].now) = time_slice(qrs.t_out)
    /\ ~members[oid(qrs.member_id)].present

====
